---- MODULE Spec2Model ----
(***************************************************************************)
(* Model of the persistent Kokoro worker                                   *)
(* (src/src/short-creator/libraries/kokoro_python_server.py).              *)
(*                                                                         *)
(* The worker reads newline-delimited requests from standard input,        *)
(* dispatches on their "action", keeps one KPipeline per lang_code in the  *)
(* module-level dict `pipelines`, and prints one JSON record per request.  *)
(*                                                                         *)
(* The third-party capabilities (KPipeline, the generator it returns,      *)
(* soundfile.write) are opaque: each call may succeed or raise, and        *)
(* KPipeline and the generator may write diagnostic text to the process's  *)
(* standard output or standard error.  The server installs no redirection, *)
(* so such text lands on the real streams.  The streams themselves are     *)
(* assumed writable.                                                       *)
(***************************************************************************)
EXTENDS Naturals, Sequences, FiniteSets

VARIABLES
    pc,             \* position: read, dispatch, get_pipeline, synth, collected, respond, done
    stop,           \* why main() returned: none, eof, exit, interrupt, fatal
    cur,            \* the line bound by `for line in sys.stdin`
    nlines,         \* lines taken from sys.stdin so far
    handled,        \* non-blank, non-exit lines whose handling has ended
    pipelines,      \* the dict `pipelines`: lang_code -> handle
    constructs,     \* per lang_code, how often KPipeline(lang_code=...) was invoked
    audio_segments, \* the list `audio_segments` of generate_audio
    result,         \* the dict generate_audio returns
    stdout,         \* what the process has written to standard output
    stderr,         \* what the process has written to standard error
    files,          \* the file system: output_path -> samples written
    writes,         \* how often sf.write was invoked
    pipeline,       \* the local `pipeline` of generate_audio: the handle get_pipeline returned
    argv,           \* one-shot helper: the positional arguments, sys.argv[1:]
    sys_stdout,     \* one-shot helper: what sys.stdout and sys.stderr are bound to
    stdout_buffer,  \* one-shot helper: the StringIO that stands in for sys.stdout
    stderr_buffer,  \* one-shot helper: the StringIO that stands in for sys.stderr
    exit_status     \* one-shot helper: the exit status of the process, once it has ended

\* the state only the one-shot helper uses
hvars == <<argv, sys_stdout, stdout_buffer, stderr_buffer, exit_status>>

vars == <<pc, stop, cur, nlines, handled, pipelines, constructs,
          audio_segments, result, stdout, stderr, files, writes, pipeline, hvars>>

(***************************************************************************)
(* Bounds                                                                  *)
(***************************************************************************)
MaxLines == 2      \* lines the caller sends
MaxChunks == 2     \* chunks one synthesis yields
MaxDiag == 1       \* diagnostic texts the third-party calls write in total

(***************************************************************************)
(* Program constants and value domains                                     *)
(***************************************************************************)
SampleRate == 24000

Absent == "<absent>"      \* command.get(key) returning None
LangCodes == {"a", "e"}
Texts == {"hola"}
Voices == {"ef_dora"}
Paths == {"out.wav"}
Chunks == {<<1>>, <<2, 3>>}

NoLine == [kind |-> "none"]
NoResult == [none |-> TRUE]
NoHandle == 0             \* `pipeline` not bound

\* The lines the caller may send.  kind: what the text of the line is;
\* jtype: the type json.loads returns for it.
BlankLines == {[kind |-> "empty"], [kind |-> "whitespace"]}
BadJsonLines == {[kind |-> "badjson"]}
NonObjectLines == {[kind |-> "json", jtype |-> t] : t \in {"number", "string", "array", "null"}}
GenerateLines ==
    {[kind |-> "json", jtype |-> "object", action |-> "generate",
      text |-> t, voice |-> v, lang_code |-> l, output_path |-> o] :
        t \in Texts \cup {Absent, ""}, v \in Voices \cup {Absent, ""},
        l \in LangCodes \cup {Absent, ""}, o \in Paths \cup {Absent, ""}}
OtherLines ==
    {[kind |-> "json", jtype |-> "object", action |-> a] :
        a \in {"ping", "exit", "speak", Absent}}
Lines == BlankLines \cup BadJsonLines \cup NonObjectLines \cup GenerateLines \cup OtherLines

(***************************************************************************)
(* Pure helpers                                                            *)
(***************************************************************************)
\* line.strip(): an empty or whitespace-only line strips to the empty string.
Strip(line) == IF line.kind \in {"empty", "whitespace"} THEN [kind |-> "empty"] ELSE line

\* `not line.strip()`
IsBlank(line) == Strip(line).kind = "empty"

\* json.loads raises JSONDecodeError
JsonFails(line) == Strip(line).kind = "badjson"

\* command is a dict (has .get)
IsObject(line) == Strip(line).kind = "json" /\ line.jtype = "object"

\* command.get("action")
Action(line) == line.action

\* Python truthiness of a value command.get returns
Truthy(v) == v \notin {Absent, ""}

\* a validation that forgets `voice`
AllPresent_ForgetsVoice(line) ==
    /\ Truthy(line.text)
    /\ Truthy(line.lang_code)
    /\ Truthy(line.output_path)

\* all([text, voice, lang_code, output_path])
AllPresent(line) ==
    /\ Truthy(line.text)
    /\ Truthy(line.voice)
    /\ Truthy(line.lang_code)
    /\ Truthy(line.output_path)

\* a concatenation that puts later chunks first
RECURSIVE Concatenate_Reversed(_)
Concatenate_Reversed(segs) ==
    IF segs = <<>> THEN <<>> ELSE Concatenate_Reversed(Tail(segs)) \o Head(segs)

\* np.concatenate(audio_segments)
RECURSIVE Concatenate(_)
Concatenate(segs) ==
    IF segs = <<>> THEN <<>> ELSE Head(segs) \o Concatenate(Tail(segs))

\* len(full_audio) / 24000.0, kept as the exact fraction
Duration(full_audio) == [num |-> Len(full_audio), den |-> SampleRate]

\* a ping answered with another message
PongRecord_Ok == [success |-> TRUE, message |-> "ok"]

\* a success record that also carries an error field
SuccessRecord_WithError(path, full_audio) ==
    [success |-> TRUE, output_path |-> path, error |-> "",
     duration |-> [num |-> Len(full_audio), den |-> 24000], sample_rate |-> 24000]

\* The response records
InvalidJsonRecord == [success |-> FALSE, error |-> "Invalid JSON"]
MissingRecord == [success |-> FALSE, error |-> "Missing required parameters"]
UnknownRecord == [success |-> FALSE, error |-> "Unknown action"]
PongRecord == [success |-> TRUE, message |-> "pong"]
NoAudioRecord == [success |-> FALSE, error |-> "No audio generated"]
ErrorRecord(msg) == [success |-> FALSE, error |-> msg]
SuccessRecord(path, full_audio) ==
    [success |-> TRUE, output_path |-> path,
     duration |-> Duration(full_audio), sample_rate |-> SampleRate]

\* Text a third-party call writes with print() or to sys.stderr
DiagText == [text |-> "WARNING"]

\* Where a third-party call leaves its diagnostic text: nowhere, sys.stdout, sys.stderr
IsDiag(x) == "text" \in DOMAIN x
NumDiag(stream) == Cardinality({i \in DOMAIN stream : IsDiag(stream[i])})
Emissions(out, err) ==
    IF NumDiag(out) + NumDiag(err) < MaxDiag THEN {"none", "stdout", "stderr"} ELSE {"none"}
EmitOut(d, out) == IF d = "stdout" THEN Append(out, DiagText) ELSE out
EmitErr(d, err) == IF d = "stderr" THEN Append(err, DiagText) ELSE err

\* a cache lookup that never hits
InCache_Never(cache, l) == FALSE

\* lang_code in pipelines
InCache(cache, l) == l \in DOMAIN cache

\* a cache that keeps only the handle stored last
Store_Evicting(cache, l, h) == [x \in {l} |-> h]

\* pipelines[lang_code] = handle
Store(cache, l, h) ==
    [x \in DOMAIN cache \cup {l} |-> IF x = l THEN h ELSE cache[x]]

(***************************************************************************)
(* Initial state: module import done, main() about to read                 *)
(***************************************************************************)
Init ==
    /\ pc = "read"
    /\ stop = "none"
    /\ cur = NoLine
    /\ nlines = 0
    /\ handled = 0
    /\ pipelines = <<>>
    /\ constructs = [l \in LangCodes |-> 0]
    /\ audio_segments = <<>>
    /\ result = NoResult
    /\ stdout = <<>>
    /\ stderr = <<>>
    /\ files = [p \in Paths |-> <<>>]
    /\ writes = 0
    /\ pipeline = NoHandle
    /\ argv = <<>>
    /\ sys_stdout = "real"
    /\ stdout_buffer = <<>>
    /\ stderr_buffer = <<>>
    /\ exit_status = <<>>

(***************************************************************************)
(* main(): the command loop                                                *)
(***************************************************************************)
\* main() returns; its locals and those of generate_audio are dead.
Return(why) ==
    /\ pc' = "done"
    /\ stop' = why
    /\ cur' = NoLine
    /\ audio_segments' = <<>>
    /\ result' = NoResult
    /\ pipeline' = NoHandle

\* `for line in sys.stdin` delivers the next line
ReadLine ==
    /\ pc = "read"
    /\ nlines < MaxLines
    /\ \E line \in Lines : cur' = line
    /\ nlines' = nlines + 1
    /\ pc' = "dispatch"
    /\ UNCHANGED <<stop, handled, pipelines, constructs, audio_segments, result,
                   stdout, stderr, files, writes>>
    /\ UNCHANGED pipeline
    /\ UNCHANGED hvars

\* `for line in sys.stdin` is exhausted
EndOfInput ==
    /\ pc = "read"
    /\ Return("eof")
    /\ UNCHANGED <<nlines, handled, pipelines, constructs, stdout, stderr, files, writes>>
    /\ UNCHANGED hvars

\* The loop goes back to the `for` after one line's handling; the locals are dead.
NextIteration ==
    /\ pc' = "read"
    /\ cur' = NoLine
    /\ audio_segments' = <<>>
    /\ result' = NoResult
    /\ pipeline' = NoHandle

\* a blank line answered like an unparseable one
SkipBlank_Answers ==
    /\ pc = "dispatch"
    /\ IsBlank(cur)
    /\ stdout' = Append(stdout, [success |-> FALSE, error |-> "Invalid JSON"])
    /\ NextIteration
    /\ UNCHANGED <<stop, nlines, handled, pipelines, constructs, stderr, files, writes>>
    /\ UNCHANGED hvars

\* if not line.strip(): continue
SkipBlank ==
    /\ pc = "dispatch"
    /\ IsBlank(cur)
    /\ NextIteration
    /\ UNCHANGED <<stop, nlines, handled, pipelines, constructs, stdout, stderr, files, writes>>
    /\ UNCHANGED hvars

\* a JSONDecodeError left to the outer handler of main()
InvalidJson_Uncaught ==
    /\ pc = "dispatch"
    /\ ~IsBlank(cur)
    /\ JsonFails(cur)
    /\ stderr' = Append(stderr, [success |-> FALSE, error |-> "JSONDecodeError"])
    /\ handled' = handled + 1
    /\ Return("fatal")
    /\ UNCHANGED <<nlines, pipelines, constructs, stdout, files, writes>>
    /\ UNCHANGED hvars

\* except json.JSONDecodeError: print Invalid JSON; continue
InvalidJson ==
    /\ pc = "dispatch"
    /\ ~IsBlank(cur)
    /\ JsonFails(cur)
    /\ stdout' = Append(stdout, InvalidJsonRecord)
    /\ handled' = handled + 1
    /\ NextIteration
    /\ UNCHANGED <<stop, nlines, pipelines, constructs, stderr, files, writes>>
    /\ UNCHANGED hvars

\* a top-level failure reported on standard output
NotAnObject_ToStdout ==
    /\ pc = "dispatch"
    /\ ~IsBlank(cur)
    /\ ~JsonFails(cur)
    /\ ~IsObject(cur)
    /\ stdout' = Append(stdout, [success |-> FALSE, error |-> "AttributeError"])
    /\ handled' = handled + 1
    /\ Return("fatal")
    /\ UNCHANGED <<nlines, pipelines, constructs, stderr, files, writes>>
    /\ UNCHANGED hvars

\* json.loads returns a value that is no dict: command.get raises AttributeError,
\* which only the outer `except Exception` of main() catches.
NotAnObject ==
    /\ pc = "dispatch"
    /\ ~IsBlank(cur)
    /\ ~JsonFails(cur)
    /\ ~IsObject(cur)
    /\ stderr' = Append(stderr, ErrorRecord("AttributeError"))
    /\ handled' = handled + 1
    /\ Return("fatal")
    /\ UNCHANGED <<nlines, pipelines, constructs, stdout, files, writes>>
    /\ UNCHANGED hvars

\* action == "generate" and not all([...]): print Missing required parameters; continue
GenerateMissing ==
    /\ pc = "dispatch"
    /\ IsObject(cur)
    /\ Action(cur) = "generate"
    /\ ~AllPresent(cur)
    /\ stdout' = Append(stdout, MissingRecord)
    /\ handled' = handled + 1
    /\ NextIteration
    /\ UNCHANGED <<stop, nlines, pipelines, constructs, stderr, files, writes>>
    /\ UNCHANGED hvars

\* action == "generate" with all four parameters: call generate_audio
GenerateCall ==
    /\ pc = "dispatch"
    /\ IsObject(cur)
    /\ Action(cur) = "generate"
    /\ AllPresent(cur)
    /\ pc' = "get_pipeline"
    /\ UNCHANGED <<stop, cur, nlines, handled, pipelines, constructs, audio_segments,
                   result, stdout, stderr, files, writes>>
    /\ UNCHANGED pipeline
    /\ UNCHANGED hvars

\* action == "ping"
Ping ==
    /\ pc = "dispatch"
    /\ IsObject(cur)
    /\ Action(cur) = "ping"
    /\ stdout' = Append(stdout, PongRecord)
    /\ handled' = handled + 1
    /\ NextIteration
    /\ UNCHANGED <<stop, nlines, pipelines, constructs, stderr, files, writes>>
    /\ UNCHANGED hvars

\* an exit that answers and goes on reading instead of breaking
Exit_NoBreak ==
    /\ pc = "dispatch"
    /\ IsObject(cur)
    /\ Action(cur) = "exit"
    /\ stdout' = Append(stdout, [success |-> TRUE, message |-> "bye"])
    /\ NextIteration
    /\ UNCHANGED <<stop, nlines, handled, pipelines, constructs, stderr, files, writes>>
    /\ UNCHANGED hvars

\* action == "exit": break
Exit ==
    /\ pc = "dispatch"
    /\ IsObject(cur)
    /\ Action(cur) = "exit"
    /\ Return("exit")
    /\ UNCHANGED <<nlines, handled, pipelines, constructs, stdout, stderr, files, writes>>
    /\ UNCHANGED hvars

\* else: print Unknown action
UnknownAction ==
    /\ pc = "dispatch"
    /\ IsObject(cur)
    /\ Action(cur) \notin {"generate", "ping", "exit"}
    /\ stdout' = Append(stdout, UnknownRecord)
    /\ handled' = handled + 1
    /\ NextIteration
    /\ UNCHANGED <<stop, nlines, pipelines, constructs, stderr, files, writes>>
    /\ UNCHANGED hvars

(***************************************************************************)
(* generate_audio(text, voice, lang_code, output_path)                     *)
(***************************************************************************)
\* get_pipeline: lang_code in pipelines, the cached handle is returned
GetPipelineCached ==
    /\ pc = "get_pipeline"
    /\ InCache(pipelines, cur.lang_code)
    /\ pc' = "synth"
    /\ UNCHANGED <<stop, cur, nlines, handled, pipelines, constructs, audio_segments,
                   result, stdout, stderr, files, writes>>
    /\ pipeline' = pipelines[cur.lang_code]
    /\ UNCHANGED hvars

\* get_pipeline: lang_code not in pipelines, KPipeline(lang_code=...) returns a
\* new handle, which is stored.  The handle is named by the invocation that made it.
KPipelineOk ==
    /\ pc = "get_pipeline"
    /\ ~InCache(pipelines, cur.lang_code)
    /\ constructs' = [constructs EXCEPT ![cur.lang_code] = @ + 1]
    /\ pipelines' = Store(pipelines, cur.lang_code, constructs'[cur.lang_code])
    /\ \E d \in Emissions(stdout, stderr) :
        /\ stdout' = EmitOut(d, stdout)
        /\ stderr' = EmitErr(d, stderr)
    /\ pc' = "synth"
    /\ UNCHANGED <<stop, cur, nlines, handled, audio_segments, result, files, writes>>
    /\ pipeline' = pipelines'[cur.lang_code]
    /\ UNCHANGED hvars

\* a cache entry made before the constructor has returned
KPipelineFail_CachesBroken ==
    /\ pc = "get_pipeline"
    /\ ~InCache(pipelines, cur.lang_code)
    /\ constructs' = [constructs EXCEPT ![cur.lang_code] = @ + 1]
    /\ pipelines' = Store(pipelines, cur.lang_code, constructs'[cur.lang_code])
    /\ result' = [success |-> FALSE, error |-> "KPipeline failed"]
    /\ pc' = "respond"
    /\ UNCHANGED <<stop, cur, nlines, handled, audio_segments, stdout, stderr, files, writes>>
    /\ UNCHANGED pipeline
    /\ UNCHANGED hvars

\* get_pipeline: lang_code not in pipelines, KPipeline(lang_code=...) raises before
\* the assignment; generate_audio's `except Exception` returns the error record.
KPipelineFail ==
    /\ pc = "get_pipeline"
    /\ ~InCache(pipelines, cur.lang_code)
    /\ constructs' = [constructs EXCEPT ![cur.lang_code] = @ + 1]
    /\ \E d \in Emissions(stdout, stderr) :
        /\ stdout' = EmitOut(d, stdout)
        /\ stderr' = EmitErr(d, stderr)
    /\ result' = ErrorRecord("KPipeline failed")
    /\ pc' = "respond"
    /\ UNCHANGED <<stop, cur, nlines, handled, pipelines, audio_segments, files, writes>>
    /\ UNCHANGED pipeline
    /\ UNCHANGED hvars

\* for gs, ps, audio in generator: audio_segments.append(audio)
NextChunk ==
    /\ pc = "synth"
    /\ Len(audio_segments) < MaxChunks
    /\ \E audio \in Chunks : audio_segments' = Append(audio_segments, audio)
    /\ \E d \in Emissions(stdout, stderr) :
        /\ stdout' = EmitOut(d, stdout)
        /\ stderr' = EmitErr(d, stderr)
    /\ UNCHANGED <<pc, stop, cur, nlines, handled, pipelines, constructs, result,
                   files, writes>>
    /\ UNCHANGED pipeline
    /\ UNCHANGED hvars

\* a failed synthesis that still writes the chunks collected so far
SynthesisFail_WritesPartial ==
    /\ pc = "synth"
    /\ writes' = writes + 1
    /\ files' = [files EXCEPT ![cur.output_path] = Concatenate(audio_segments)]
    /\ result' = [success |-> FALSE, error |-> "synthesis failed"]
    /\ pc' = "respond"
    /\ UNCHANGED <<stop, cur, nlines, handled, pipelines, constructs, audio_segments,
                   stdout, stderr>>
    /\ UNCHANGED pipeline
    /\ UNCHANGED hvars

\* the generator raises while it is consumed
SynthesisFail ==
    /\ pc = "synth"
    /\ result' = ErrorRecord("synthesis failed")
    /\ pc' = "respond"
    /\ UNCHANGED <<stop, cur, nlines, handled, pipelines, constructs, audio_segments,
                   stdout, stderr, files, writes>>
    /\ UNCHANGED pipeline
    /\ UNCHANGED hvars

\* the generator is exhausted: the `for` loop ends
SynthesisDone ==
    /\ pc = "synth"
    /\ pc' = "collected"
    /\ UNCHANGED <<stop, cur, nlines, handled, pipelines, constructs, audio_segments,
                   result, stdout, stderr, files, writes>>
    /\ UNCHANGED pipeline
    /\ UNCHANGED hvars

\* an empty synthesis written out as an empty file and reported as a success
NoAudio_WritesEmpty ==
    /\ pc = "collected"
    /\ audio_segments = <<>>
    /\ writes' = writes + 1
    /\ files' = [files EXCEPT ![cur.output_path] = <<>>]
    /\ result' = [success |-> TRUE, output_path |-> cur.output_path,
                  duration |-> [num |-> 0, den |-> 24000], sample_rate |-> 24000]
    /\ pc' = "respond"
    /\ UNCHANGED <<stop, cur, nlines, handled, pipelines, constructs, audio_segments,
                   stdout, stderr>>
    /\ UNCHANGED pipeline
    /\ UNCHANGED hvars

\* if not audio_segments: return No audio generated
NoAudio ==
    /\ pc = "collected"
    /\ audio_segments = <<>>
    /\ result' = NoAudioRecord
    /\ pc' = "respond"
    /\ UNCHANGED <<stop, cur, nlines, handled, pipelines, constructs, audio_segments,
                   stdout, stderr, files, writes>>
    /\ UNCHANGED pipeline
    /\ UNCHANGED hvars

\* a write failure that escapes generate_audio to the outer handler of main()
WriteFail_Escapes ==
    /\ pc = "collected"
    /\ audio_segments # <<>>
    /\ writes' = writes + 1
    /\ stderr' = Append(stderr, [success |-> FALSE, error |-> "write failed"])
    /\ Return("fatal")
    /\ UNCHANGED <<nlines, handled, pipelines, constructs, stdout, files>>
    /\ UNCHANGED hvars

\* full_audio = np.concatenate(...); sf.write(output_path, full_audio, 24000) returns
WriteOk ==
    /\ pc = "collected"
    /\ audio_segments # <<>>
    /\ writes' = writes + 1
    /\ files' = [files EXCEPT ![cur.output_path] = Concatenate(audio_segments)]
    /\ result' = SuccessRecord(cur.output_path, Concatenate(audio_segments))
    /\ pc' = "respond"
    /\ UNCHANGED <<stop, cur, nlines, handled, pipelines, constructs, audio_segments,
                   stdout, stderr>>
    /\ UNCHANGED pipeline
    /\ UNCHANGED hvars

\* sf.write raises (the path cannot be opened): nothing is written
WriteFail ==
    /\ pc = "collected"
    /\ audio_segments # <<>>
    /\ writes' = writes + 1
    /\ result' = ErrorRecord("write failed")
    /\ pc' = "respond"
    /\ UNCHANGED <<stop, cur, nlines, handled, pipelines, constructs, audio_segments,
                   stdout, stderr, files>>
    /\ UNCHANGED pipeline
    /\ UNCHANGED hvars

\* back in main(): print(json.dumps(result), flush=True)
Respond ==
    /\ pc = "respond"
    /\ stdout' = Append(stdout, result)
    /\ handled' = handled + 1
    /\ NextIteration
    /\ UNCHANGED <<stop, nlines, pipelines, constructs, stderr, files, writes>>
    /\ UNCHANGED hvars

\* an interruption reported like any other exception
Interrupt_Reported ==
    /\ pc # "done"
    /\ stderr' = Append(stderr, [success |-> FALSE, error |-> "KeyboardInterrupt"])
    /\ Return("interrupt")
    /\ UNCHANGED <<nlines, handled, pipelines, constructs, stdout, files, writes>>
    /\ UNCHANGED hvars

\* KeyboardInterrupt anywhere in the loop: generate_audio's `except Exception` does
\* not catch it, main()'s `except KeyboardInterrupt: pass` does.
Interrupt ==
    /\ pc # "done"
    /\ Return("interrupt")
    /\ UNCHANGED <<nlines, handled, pipelines, constructs, stdout, stderr, files, writes>>
    /\ UNCHANGED hvars

Next ==
    \/ ReadLine
    \/ EndOfInput
    \/ SkipBlank
    \/ InvalidJson
    \/ NotAnObject
    \/ GenerateMissing
    \/ GenerateCall
    \/ Ping
    \/ Exit
    \/ UnknownAction
    \/ GetPipelineCached
    \/ KPipelineOk
    \/ KPipelineFail
    \/ NextChunk
    \/ SynthesisFail
    \/ SynthesisDone
    \/ NoAudio
    \/ WriteOk
    \/ WriteFail
    \/ Respond
    \/ Interrupt

Spec == Init /\ [][Next]_vars

\* The steps the process and its caller take when nothing interrupts: the server
\* executes its next statement, the caller sends its next line or closes the stream.
Progress ==
    \/ ReadLine
    \/ EndOfInput
    \/ SkipBlank
    \/ InvalidJson
    \/ NotAnObject
    \/ GenerateMissing
    \/ GenerateCall
    \/ Ping
    \/ Exit
    \/ UnknownAction
    \/ GetPipelineCached
    \/ KPipelineOk
    \/ KPipelineFail
    \/ NextChunk
    \/ SynthesisFail
    \/ SynthesisDone
    \/ NoAudio
    \/ WriteOk
    \/ WriteFail
    \/ Respond

(***************************************************************************)
(* The one-shot helper                                                     *)
(* (src/src/short-creator/libraries/kokoro_python_helper.py).              *)
(*                                                                         *)
(* One process per request: the four positional arguments are text, voice, *)
(* lang_code and output_path.  The helper binds sys.stdout and sys.stderr  *)
(* to StringIO buffers around KPipeline and the generator, restores them   *)
(* in a `finally`, and only then concatenates, calls sf.write and prints   *)
(* the result.  sf.write, like the other third-party calls, may write      *)
(* text of its own; it runs on the restored streams.                       *)
(* It shares pc, result (the exception in flight), audio_segments, stdout, *)
(* stderr (the real streams), files and writes with the model above.       *)
(***************************************************************************)
MaxArgs == 5       \* positional arguments the caller passes

\* the state only the server uses
sonly == <<stop, cur, nlines, handled, pipelines, constructs, pipeline>>

\* sys.argv[1:] with n positional arguments
Argv(n, l) ==
    [i \in 1..n |-> CASE i = 1 -> "hola"
                      [] i = 2 -> "ef_dora"
                      [] i = 3 -> l
                      [] i = 4 -> "out.wav"
                      [] OTHER -> "extra"]

\* len(sys.argv): the script name and the positional arguments
Argc(args) == Len(args) + 1

\* the plain-text lines the helper and the interpreter write to standard error
NotInstalledText == [text |-> "ERROR: kokoro package not installed"]
UsageText == [text |-> "ERROR: Usage: python kokoro_python_helper.py <text> <voice> <lang_code> <output_path>"]
TracebackText == [text |-> "Traceback: IndexError: list index out of range"]

HInit ==
    /\ pc = "import"
    /\ \E n \in 0..MaxArgs, l \in LangCodes : argv = Argv(n, l)
    /\ sys_stdout = "real"
    /\ stdout_buffer = <<>>
    /\ stderr_buffer = <<>>
    /\ exit_status = <<>>
    /\ audio_segments = <<>>
    /\ result = NoResult
    /\ stdout = <<>>
    /\ stderr = <<>>
    /\ files = [p \in Paths |-> <<>>]
    /\ writes = 0
    /\ stop = "none"
    /\ cur = NoLine
    /\ nlines = 0
    /\ handled = 0
    /\ pipelines = <<>>
    /\ constructs = [l \in LangCodes |-> 0]
    /\ pipeline = NoHandle

\* the process ends with the given status
HExit(code) ==
    /\ pc' = "exited"
    /\ exit_status' = <<code>>

\* where a third-party call may leave text, given what was written so far
HEmissions ==
    Emissions(stdout \o stdout_buffer, stderr \o stderr_buffer)

\* from kokoro import KPipeline succeeds
HImportOk ==
    /\ pc = "import"
    /\ pc' = "args"
    /\ UNCHANGED <<audio_segments, result, stdout, stderr, files, writes, hvars, sonly>>

\* except ImportError: print the plain-text error to stderr; sys.exit(1)
HImportFail ==
    /\ pc = "import"
    /\ stderr' = Append(stderr, NotInstalledText)
    /\ HExit(1)
    /\ UNCHANGED <<audio_segments, result, stdout, files, writes,
                   argv, sys_stdout, stdout_buffer, stderr_buffer, sonly>>

\* if len(sys.argv) < 4: print the usage text to stderr; sys.exit(1)
HUsage ==
    /\ pc = "args"
    /\ Argc(argv) < 4
    /\ stderr' = Append(stderr, UsageText)
    /\ HExit(1)
    /\ UNCHANGED <<audio_segments, result, stdout, files, writes,
                   argv, sys_stdout, stdout_buffer, stderr_buffer, sonly>>

\* len(sys.argv) = 4: output_path = sys.argv[4] raises IndexError outside the try;
\* the interpreter prints the traceback to stderr and exits with status 1
HIndexError ==
    /\ pc = "args"
    /\ Argc(argv) >= 4
    /\ Len(argv) < 4
    /\ stderr' = Append(stderr, TracebackText)
    /\ HExit(1)
    /\ UNCHANGED <<audio_segments, result, stdout, files, writes,
                   argv, sys_stdout, stdout_buffer, stderr_buffer, sonly>>

\* the four arguments are bound; sys.stdout and sys.stderr are bound to the buffers
HRedirect ==
    /\ pc = "args"
    /\ Len(argv) >= 4
    /\ sys_stdout' = "buffer"
    /\ pc' = "construct"
    /\ UNCHANGED <<audio_segments, result, stdout, stderr, files, writes,
                   argv, stdout_buffer, stderr_buffer, exit_status, sonly>>

\* pipeline = KPipeline(lang_code=lang_code) returns; its text goes where sys.stdout
\* and sys.stderr point
HKPipelineOk ==
    /\ pc = "construct"
    /\ \E d \in HEmissions :
        /\ stdout_buffer' = EmitOut(d, stdout_buffer)
        /\ stderr_buffer' = EmitErr(d, stderr_buffer)
    /\ pc' = "synth"
    /\ UNCHANGED <<audio_segments, result, stdout, stderr, files, writes,
                   argv, sys_stdout, exit_status, sonly>>

\* KPipeline raises: the exception is in flight through the finally
HKPipelineFail ==
    /\ pc = "construct"
    /\ \E d \in HEmissions :
        /\ stdout_buffer' = EmitOut(d, stdout_buffer)
        /\ stderr_buffer' = EmitErr(d, stderr_buffer)
    /\ result' = ErrorRecord("KPipeline failed")
    /\ pc' = "finally"
    /\ UNCHANGED <<audio_segments, stdout, stderr, files, writes,
                   argv, sys_stdout, exit_status, sonly>>

\* for gs, ps, audio in generator: audio_segments.append(audio)
HNextChunk ==
    /\ pc = "synth"
    /\ Len(audio_segments) < MaxChunks
    /\ \E audio \in Chunks : audio_segments' = Append(audio_segments, audio)
    /\ \E d \in HEmissions :
        /\ stdout_buffer' = EmitOut(d, stdout_buffer)
        /\ stderr_buffer' = EmitErr(d, stderr_buffer)
    /\ UNCHANGED <<pc, result, stdout, stderr, files, writes,
                   argv, sys_stdout, exit_status, sonly>>

\* the generator raises while it is consumed
HSynthesisFail ==
    /\ pc = "synth"
    /\ result' = ErrorRecord("synthesis failed")
    /\ pc' = "finally"
    /\ UNCHANGED <<audio_segments, stdout, stderr, files, writes, hvars, sonly>>

\* the generator is exhausted
HSynthesisDone ==
    /\ pc = "synth"
    /\ pc' = "finally"
    /\ UNCHANGED <<audio_segments, result, stdout, stderr, files, writes, hvars, sonly>>

\* finally: sys.stdout and sys.stderr are restored and the captured stderr text is
\* printed to the real stderr; an exception in flight goes on to the outer handler
HFinally ==
    /\ pc = "finally"
    /\ sys_stdout' = "real"
    /\ stderr' = stderr \o stderr_buffer
    /\ pc' = IF result = NoResult THEN "collected" ELSE "except"
    /\ UNCHANGED <<audio_segments, result, stdout, files, writes,
                   argv, stdout_buffer, stderr_buffer, exit_status, sonly>>

\* except Exception: print the error record to stderr; sys.exit(1)
HExcept ==
    /\ pc = "except"
    /\ stderr' = Append(stderr, result)
    /\ HExit(1)
    /\ UNCHANGED <<audio_segments, result, stdout, files, writes,
                   argv, sys_stdout, stdout_buffer, stderr_buffer, sonly>>

\* if audio_segments: concatenate, sf.write returns, print the success record; the
\* process ends with status 0
HWriteOk ==
    /\ pc = "collected"
    /\ audio_segments # <<>>
    /\ writes' = writes + 1
    /\ files' = [files EXCEPT ![argv[4]] = Concatenate(audio_segments)]
    /\ \E d \in HEmissions :
        /\ stdout' = Append(EmitOut(d, stdout),
                            SuccessRecord(argv[4], Concatenate(audio_segments)))
        /\ stderr' = EmitErr(d, stderr)
    /\ HExit(0)
    /\ UNCHANGED <<audio_segments, result, argv, sys_stdout, stdout_buffer, stderr_buffer, sonly>>

\* sf.write raises: the outer handler prints the error record to stderr; sys.exit(1)
HWriteFail ==
    /\ pc = "collected"
    /\ audio_segments # <<>>
    /\ writes' = writes + 1
    /\ \E d \in HEmissions :
        /\ stdout' = EmitOut(d, stdout)
        /\ stderr' = Append(EmitErr(d, stderr), ErrorRecord("write failed"))
    /\ HExit(1)
    /\ UNCHANGED <<audio_segments, result, files, argv, sys_stdout, stdout_buffer,
                   stderr_buffer, sonly>>

\* else: print the No audio generated record to stderr; sys.exit(1)
HNoAudio ==
    /\ pc = "collected"
    /\ audio_segments = <<>>
    /\ stderr' = Append(stderr, NoAudioRecord)
    /\ HExit(1)
    /\ UNCHANGED <<audio_segments, result, stdout, files, writes,
                   argv, sys_stdout, stdout_buffer, stderr_buffer, sonly>>

HNext ==
    \/ HImportOk
    \/ HImportFail
    \/ HUsage
    \/ HIndexError
    \/ HRedirect
    \/ HKPipelineOk
    \/ HKPipelineFail
    \/ HNextChunk
    \/ HSynthesisFail
    \/ HSynthesisDone
    \/ HFinally
    \/ HExcept
    \/ HWriteOk
    \/ HWriteFail
    \/ HNoAudio

HelperSpec == HInit /\ [][HNext]_vars

(***************************************************************************)
(* Predicates the properties below are stated with                         *)
(***************************************************************************)
IsResponse(x) == "success" \in DOMAIN x
IsFailure(x) == IsResponse(x) /\ x.success = FALSE
Responses(stream) == {i \in DOMAIN stream : IsResponse(stream[i])}

IsExitLine(line) == IsObject(line) /\ line.action = "exit"
IsPingLine(line) == IsObject(line) /\ line.action = "ping"
IsGenerateLine(line) == IsObject(line) /\ line.action = "generate"

\* a request that is not parseable, not an object, incomplete or of unknown action
Malformed(line) ==
    \/ line.kind = "badjson"
    \/ (line.kind = "json" /\ line.jtype # "object")
    \/ (IsGenerateLine(line) /\
          \E f \in {"text", "voice", "lang_code", "output_path"} : line[f] \in {Absent, ""})
    \/ (IsObject(line) /\ line.action \notin {"generate", "ping", "exit"})

\* the step is not the arrival of a KeyboardInterrupt
NotInterrupted == stop' # "interrupt"

GenerateSuccessShape(r) ==
    /\ DOMAIN r = {"success", "output_path", "duration", "sample_rate"}
    /\ r.success = TRUE
    /\ r.sample_rate = 24000
PingSuccessShape(r) ==
    /\ DOMAIN r = {"success", "message"}
    /\ r.success = TRUE
    /\ r.message = "pong"
FailureShape(r) ==
    /\ DOMAIN r = {"success", "error"}
    /\ r.success = FALSE
AllowedShape(r) == GenerateSuccessShape(r) \/ PingSuccessShape(r) \/ FailureShape(r)

(***************************************************************************)
(* C1.  No request line other than `exit` ends the command loop: handling  *)
(* a non-blank line that is not an exit request leaves the loop running,   *)
(* and a malformed request adds exactly one {success:false, error} record  *)
(* to standard output.                                                     *)
(***************************************************************************)
C1_RequestsNeverEndLoop ==
    [][(pc = "dispatch" /\ ~IsBlank(cur) /\ ~IsExitLine(cur) /\ NotInterrupted)
         => /\ stop' = "none"
            /\ Malformed(cur) =>
                 /\ Len(stdout') = Len(stdout) + 1
                 /\ IsFailure(stdout'[Len(stdout')])]_vars

(***************************************************************************)
(* C2 as stated.  KPipeline is invoked at most once per lang_code.         *)
(***************************************************************************)
C2_ConstructorAtMostOncePerCode ==
    \A l \in LangCodes : constructs[l] <= 1

(***************************************************************************)
(* C2 as amended.  Once a handle is stored for a lang_code, no step        *)
(* invokes KPipeline for that code again: constructions that raised leave  *)
(* nothing stored and are the only ones repeated.                          *)
(***************************************************************************)
C2_NoConstructionOnceCached ==
    [][\A l \in LangCodes :
         l \in DOMAIN pipelines => constructs'[l] = constructs[l]]_vars

\* a second generate for a code runs on the handle the first one constructed
C2_Witness ==
    /\ pc = "synth"
    /\ \E i \in DOMAIN stdout : GenerateSuccessShape(stdout[i])
    /\ cur.lang_code \in DOMAIN pipelines
    /\ \A l \in LangCodes : constructs[l] = IF l = cur.lang_code THEN 1 ELSE 0

(***************************************************************************)
(* C3.  Standard output holds nothing but response records: no diagnostic  *)
(* text of KPipeline or of the synthesis is ever on it.                    *)
(***************************************************************************)
C3_StdoutOnlyResponseRecords ==
    \A i \in DOMAIN stdout : IsResponse(stdout[i])

(***************************************************************************)
(* C4.  Every response record written (to standard output or standard      *)
(* error) or about to be printed has one of the allowed shapes: generate   *)
(* success {success:true, output_path, duration, sample_rate:24000}, ping  *)
(* success {success:true, message:"pong"}, or failure {success:false,      *)
(* error}; none has success=true together with an error field.             *)
(***************************************************************************)
C4_ResponseShapes ==
    /\ \A i \in Responses(stdout) : AllowedShape(stdout[i])
    /\ \A i \in Responses(stderr) : AllowedShape(stderr[i])
    /\ pc = "respond" => AllowedShape(result)
    /\ \A i \in Responses(stdout) : stdout[i].success => "error" \notin DOMAIN stdout[i]

\* a generate success and a failure record have both been written
C4_Witness ==
    /\ \E i \in DOMAIN stdout : GenerateSuccessShape(stdout[i])
    /\ \E i \in DOMAIN stdout : FailureShape(stdout[i])

(***************************************************************************)
(* C5.  At any time the number of response lines on standard output equals *)
(* the number of non-blank, non-exit requests whose handling has ended.    *)
(***************************************************************************)
C5_OneResponsePerRequest ==
    Cardinality(Responses(stdout)) = handled

(***************************************************************************)
(* C6.  Handling an `exit` request writes nothing and changes neither the  *)
(* cache nor the files, and ends the loop; once the loop has ended on      *)
(* `exit` no step happens any more: nothing is read, constructed, written  *)
(* or answered.                                                            *)
(***************************************************************************)
C6_NothingAfterExit ==
    [][/\ (pc = "dispatch" /\ IsExitLine(cur) /\ NotInterrupted)
            => /\ stop' = "exit"
               /\ pc' = "done"
               /\ UNCHANGED <<nlines, handled, pipelines, constructs,
                              stdout, stderr, files, writes>>
       /\ stop = "exit" => UNCHANGED vars]_vars

\* the loop ended on `exit` although the caller could have sent more lines
C6_Witness ==
    /\ stop = "exit"
    /\ pc = "done"
    /\ nlines < MaxLines

(***************************************************************************)
(* C7.  Handling a line that is not parseable as JSON appends exactly      *)
(* {success:false, error:"Invalid JSON"} to standard output, leaves the    *)
(* pipeline cache unchanged and leaves the loop reading; a ping handled at *)
(* any point after such a line is answered with pong.                      *)
(***************************************************************************)
C7_InvalidJsonKeepsLoopAlive ==
    [][/\ (pc = "dispatch" /\ cur.kind = "badjson" /\ NotInterrupted)
            => /\ stdout' = Append(stdout, [success |-> FALSE, error |-> "Invalid JSON"])
               /\ pipelines' = pipelines
               /\ constructs' = constructs
               /\ pc' = "read"
               /\ stop' = "none"
       /\ (pc = "dispatch" /\ IsPingLine(cur) /\ NotInterrupted
             /\ \E i \in DOMAIN stdout : stdout[i] = [success |-> FALSE, error |-> "Invalid JSON"])
            => /\ stdout' = Append(stdout, [success |-> TRUE, message |-> "pong"])
               /\ stop' = "none"]_vars

\* a ping was answered after an unparseable line was answered
C7_Witness ==
    \E i, j \in DOMAIN stdout :
        /\ i < j
        /\ stdout[i] = [success |-> FALSE, error |-> "Invalid JSON"]
        /\ stdout[j] = [success |-> TRUE, message |-> "pong"]

(***************************************************************************)
(* C8.  Handling a `ping` request appends {success:true, message:"pong"}   *)
(* to standard output whatever the state, and leaves the pipeline cache,   *)
(* the construction counts, the files, the write count and standard error  *)
(* unchanged.                                                              *)
(***************************************************************************)
C8_PingAlwaysPong ==
    [][(pc = "dispatch" /\ IsPingLine(cur) /\ NotInterrupted)
         => /\ stdout' = Append(stdout, [success |-> TRUE, message |-> "pong"])
            /\ pc' = "read"
            /\ UNCHANGED <<pipelines, constructs, files, writes, stderr>>]_vars

\* a ping was answered after a failed request, with a handle in the cache
C8_Witness ==
    /\ DOMAIN pipelines # {}
    /\ \E i, j \in DOMAIN stdout :
        /\ i < j
        /\ IsFailure(stdout[i])
        /\ stdout[j] = [success |-> TRUE, message |-> "pong"]

(***************************************************************************)
(* C9.  Handling a `generate` request in which any of text, voice,         *)
(* lang_code, output_path is absent or empty appends {success:false,       *)
(* error:"Missing required parameters"} to standard output and goes back   *)
(* to reading, without entering generate_audio: no pipeline construction,  *)
(* no cache change, no file write.                                         *)
(***************************************************************************)
C9_MissingParameters ==
    [][(/\ pc = "dispatch"
        /\ IsGenerateLine(cur)
        /\ \E f \in {"text", "voice", "lang_code", "output_path"} : cur[f] \in {Absent, ""}
        /\ NotInterrupted)
         => /\ stdout' = Append(stdout, [success |-> FALSE,
                                         error |-> "Missing required parameters"])
            /\ pc' = "read"
            /\ stop' = "none"
            /\ UNCHANGED <<pipelines, constructs, files, writes>>]_vars

\* an incomplete generate was answered and the loop went on to answer another request
C9_Witness ==
    /\ Len(stdout) >= 2
    /\ stdout[1] = [success |-> FALSE, error |-> "Missing required parameters"]
    /\ IsResponse(stdout[2])
    /\ writes = 0
    /\ pipelines = <<>>

(***************************************************************************)
(* C10.  When the synthesis ends having yielded zero chunks, generate_audio*)
(* returns {success:false, error:"No audio generated"} without invoking    *)
(* the audio write or touching any file, and that record is what the       *)
(* server prints for the request.                                          *)
(***************************************************************************)
C10_EmptySynthesisFails ==
    [][/\ (pc = "collected" /\ audio_segments = <<>> /\ NotInterrupted)
            => /\ result' = [success |-> FALSE, error |-> "No audio generated"]
               /\ pc' = "respond"
               /\ UNCHANGED <<files, writes>>
       /\ (pc = "respond" /\ audio_segments = <<>> /\ NotInterrupted)
            => /\ stdout' = Append(stdout, result)
               /\ ~result.success
               /\ UNCHANGED <<files, writes>>]_vars

\* an empty synthesis was answered with the failure and nothing was written
C10_Witness ==
    /\ \E i \in DOMAIN stdout : stdout[i] = [success |-> FALSE, error |-> "No audio generated"]
    /\ writes = 0
    /\ \A p \in Paths : files[p] = <<>>
    /\ DOMAIN pipelines # {}

(***************************************************************************)
(* C11.  No step of generate_audio escapes to main()'s outer handler: a    *)
(* failure of KPipeline, of the generator or of sf.write leaves the loop   *)
(* running with a {success:false, error} record as the result, and the     *)
(* server then prints that result on standard output and goes on reading.  *)
(***************************************************************************)
C11_GenerateAudioNeverRaises ==
    [][/\ (pc \in {"get_pipeline", "synth", "collected"} /\ NotInterrupted)
            => /\ stop' = "none"
               /\ pc' \in {"synth", "collected", "respond"}
               /\ pc' = "respond" => IsResponse(result')
               /\ (pc' = "respond" /\ ~result'.success) => FailureShape(result')
               /\ \A i \in DOMAIN stderr' : ~IsResponse(stderr'[i])
       /\ (pc = "respond" /\ NotInterrupted)
            => /\ stdout' = Append(stdout, result)
               /\ stderr' = stderr
               /\ pc' = "read"
               /\ stop' = "none"]_vars

\* a failed write was answered on standard output and a later request was answered too
C11_Witness ==
    \E i, j \in DOMAIN stdout :
        /\ i < j
        /\ stdout[i] = [success |-> FALSE, error |-> "write failed"]
        /\ IsResponse(stdout[j])

(***************************************************************************)
(* C12.  A one-shot process that has ended has either status 0 with        *)
(* exactly one line on standard output, the success record with            *)
(* sample_rate 24000, or a non-zero status with nothing on standard output *)
(* and a JSON error object as the last line on standard error.             *)
(***************************************************************************)
C12_OneShotOutcomes ==
    pc = "exited" =>
        \/ /\ exit_status = <<0>>
           /\ Len(stdout) = 1
           /\ GenerateSuccessShape(stdout[1])
        \/ /\ exit_status # <<0>>
           /\ stdout = <<>>
           /\ stderr # <<>>
           /\ FailureShape(stderr[Len(stderr)])

(***************************************************************************)
(* C13.  In the one-shot helper, once the wrapped invocation is over       *)
(* sys.stdout and sys.stderr are the real streams again and every text     *)
(* captured from stderr has been written to the real stderr; the real      *)
(* standard output never holds anything but the JSON result, whatever the  *)
(* model capability or the audio encoder write.                            *)
(***************************************************************************)
C13_OnlyJsonOnRealStdout ==
    /\ pc \in {"collected", "except", "exited"}
         => /\ sys_stdout = "real"
            /\ \A i \in DOMAIN stderr_buffer :
                 \E j \in DOMAIN stderr : stderr[j] = stderr_buffer[i]
    /\ \A i \in DOMAIN stdout : IsResponse(stdout[i])

(***************************************************************************)
(* C14.  sf.write is invoked only once the generator is exhausted, once,   *)
(* with at least one chunk; files change only by that write; a synthesis   *)
(* that fails while it is consumed yields a failure and leaves the files   *)
(* untouched; a success result exists only after the write, and a success  *)
(* record reaches standard output only from that result.                   *)
(***************************************************************************)
C14_AllOrNothingWrite ==
    [][/\ writes' # writes
            => /\ pc = "collected"
               /\ pc' = "respond"
               /\ writes' = writes + 1
               /\ audio_segments # <<>>
       /\ files' # files => writes' # writes
       /\ (pc = "synth" /\ pc' = "respond")
            => /\ ~result'.success
               /\ files' = files
               /\ writes' = writes
       /\ (pc # "respond" /\ pc' = "respond" /\ result'.success)
            => /\ writes' = writes + 1
               /\ files'[cur.output_path] # <<>>
       /\ (Len(stdout') > Len(stdout) /\ GenerateSuccessShape(stdout'[Len(stdout')]))
            => /\ pc = "respond"
               /\ stdout'[Len(stdout')] = result]_vars

\* the generator failed after it had produced chunks, and nothing was written
C14_Witness ==
    /\ pc = "respond"
    /\ audio_segments # <<>>
    /\ result = [success |-> FALSE, error |-> "synthesis failed"]
    /\ writes = 0
    /\ \A p \in Paths : files[p] = <<>>

(***************************************************************************)
(* C15.  After a successful generate with chunks c1..ck the file at        *)
(* output_path holds c1, c2, ..., ck one after the other in arrival order, *)
(* its sample count is the sum of the chunk lengths, and the reported      *)
(* duration is that count over 24000.                                      *)
(***************************************************************************)
RECURSIVE SumLen(_, _)
SumLen(segs, n) == IF n = 0 THEN 0 ELSE SumLen(segs, n - 1) + Len(segs[n])

C15_ConcatenationInOrder ==
    (pc = "respond" /\ result.success)
        => /\ Len(files[cur.output_path]) = SumLen(audio_segments, Len(audio_segments))
           /\ \A i \in DOMAIN audio_segments : \A j \in DOMAIN audio_segments[i] :
                files[cur.output_path][SumLen(audio_segments, i - 1) + j] = audio_segments[i][j]
           /\ result.duration =
                [num |-> SumLen(audio_segments, Len(audio_segments)), den |-> 24000]
           /\ result.output_path = cur.output_path

\* two chunks of different lengths, the longer one first, were written
C15_Witness ==
    /\ pc = "respond"
    /\ result.success
    /\ audio_segments = <<<<2, 3>>, <<1>>>>
    /\ files["out.wav"] = <<2, 3, 1>>

(***************************************************************************)
(* C16.  The pipeline cache only grows: no step removes or replaces an     *)
(* entry, and a generate for a cached lang_code runs on the stored handle. *)
(***************************************************************************)
C16_CacheOnlyGrows ==
    [][/\ \A l \in DOMAIN pipelines :
            /\ l \in DOMAIN pipelines'
            /\ pipelines'[l] = pipelines[l]
       /\ (pc = "get_pipeline" /\ cur.lang_code \in DOMAIN pipelines /\ NotInterrupted)
            => pipeline' = pipelines[cur.lang_code]
       /\ (pc \in {"synth", "collected"} /\ pc' \in {"synth", "collected", "respond"})
            => pipeline' = pipeline]_vars

\* after a failed request, a generate runs on a handle stored while another code is cached too
C16_Witness ==
    /\ pc = "synth"
    /\ DOMAIN pipelines = {"a", "e"}
    /\ pipeline = pipelines[cur.lang_code]
    /\ \E i \in DOMAIN stdout : IsFailure(stdout[i])

(***************************************************************************)
(* C17.  The loop ends on end-of-input and on `exit`; a blank or           *)
(* whitespace-only line is skipped with no response, no cache change and   *)
(* the loop still reading; a request whose action is absent or unknown is  *)
(* answered {success:false, error:"Unknown action"} with the loop still    *)
(* reading.  Termination: every step strictly decreases a natural-valued   *)
(* measure of the work left (lines the caller may still send, chunks the   *)
(* generator may still yield, statements left for the current line), and   *)
(* as long as the loop has not ended a step is possible, so a process that *)
(* keeps running reaches the end of the loop.                              *)
(***************************************************************************)
StageRank ==
    CASE pc = "read" -> 0
      [] pc = "respond" -> 1
      [] pc = "collected" -> 2
      [] pc = "synth" -> 3 + (MaxChunks - Len(audio_segments))
      [] pc = "get_pipeline" -> 4 + MaxChunks
      [] pc = "dispatch" -> 5 + MaxChunks
      [] OTHER -> 0

\* a measure of the work left: lines the caller may still send, then the statements
\* left in the handling of the current line
Rank ==
    IF pc = "done" THEN 0
    ELSE 1 + (MaxLines - nlines) * (6 + MaxChunks) + StageRank

C17_LoopTerminates ==
    /\ [][/\ (pc = "read" /\ pc' = "done" /\ NotInterrupted) => stop' = "eof"
          /\ (pc = "dispatch" /\ IsExitLine(cur) /\ NotInterrupted) => pc' = "done"
          /\ (pc = "dispatch" /\ cur.kind \in {"empty", "whitespace"} /\ NotInterrupted)
               => /\ pc' = "read"
                  /\ stop' = "none"
                  /\ UNCHANGED <<stdout, stderr, handled, pipelines, constructs,
                                 files, writes>>
          /\ (pc = "dispatch" /\ IsObject(cur) /\ NotInterrupted
                /\ cur.action \notin {"generate", "ping", "exit"})
               => /\ stdout' = Append(stdout, [success |-> FALSE, error |-> "Unknown action"])
                  /\ pc' = "read"
                  /\ stop' = "none"]_vars
    /\ [][Rank' < Rank]_vars
    /\ [](pc # "done" => ENABLED Progress)

\* the loop ended on end-of-input after a blank line was skipped and an unknown
\* action was answered
C17_Witness ==
    /\ stop = "eof"
    /\ nlines = 2
    /\ handled = 1
    /\ stdout = <<[success |-> FALSE, error |-> "Unknown action"]>>

(***************************************************************************)
(* C18.  A KeyboardInterrupt can arrive at every position of the loop; it  *)
(* ends the loop without writing anything to standard output or standard   *)
(* error, and nothing happens after it: the request in flight gets no      *)
(* response and no later request is read.                                  *)
(***************************************************************************)
C18_InterruptEndsSilently ==
    [][/\ (stop # "interrupt" /\ stop' = "interrupt")
            => /\ pc' = "done"
               /\ UNCHANGED <<stdout, stderr, nlines, handled, pipelines, constructs,
                              files, writes>>
       /\ stop = "interrupt" => UNCHANGED vars]_vars

\* a generate was interrupted after its pipeline was constructed: no response at all
C18_Witness ==
    /\ stop = "interrupt"
    /\ nlines = 1
    /\ DOMAIN pipelines # {}
    /\ stdout = <<>>
    /\ stderr = <<>>

(***************************************************************************)
(* C19.  A KPipeline construction that raises leaves the cache unchanged   *)
(* and yields a failure result; a generate for a code without a stored     *)
(* handle always invokes the constructor (again), one for a code with a    *)
(* stored handle never does.                                               *)
(***************************************************************************)
C19_FailedConstructionNotCached ==
    [][/\ (pc = "get_pipeline" /\ pc' = "respond")
            => /\ pipelines' = pipelines
               /\ FailureShape(result')
               /\ constructs'[cur.lang_code] = constructs[cur.lang_code] + 1
       /\ (pc = "get_pipeline" /\ cur.lang_code \notin DOMAIN pipelines /\ NotInterrupted)
            => constructs'[cur.lang_code] = constructs[cur.lang_code] + 1
       /\ (pc = "get_pipeline" /\ cur.lang_code \in DOMAIN pipelines)
            => constructs' = constructs]_vars

\* the constructor was invoked a second time for a code whose first construction failed
C19_Witness ==
    \E l \in LangCodes :
        /\ constructs[l] = 2
        /\ \E i \in DOMAIN stdout : stdout[i] = [success |-> FALSE, error |-> "KPipeline failed"]

(***************************************************************************)
(* C20.  When a failure reaches main()'s outer handler, exactly one        *)
(* failure record is appended to standard error, nothing is written to     *)
(* standard output, and no step follows: no further request is read.       *)
(***************************************************************************)
C20_TopLevelFailure ==
    [][/\ (stop # "fatal" /\ stop' = "fatal")
            => /\ Len(stderr') = Len(stderr) + 1
               /\ SubSeq(stderr', 1, Len(stderr)) = stderr
               /\ FailureShape(stderr'[Len(stderr')])
               /\ stdout' = stdout
               /\ pc' = "done"
       /\ stop = "fatal" => UNCHANGED vars]_vars

\* the outer handler ended the loop although the caller could have sent more lines
C20_Witness ==
    /\ stop = "fatal"
    /\ nlines < MaxLines
    /\ Len(stderr) >= 1
    /\ FailureShape(stderr[Len(stderr)])

====
